---- MODULE Spec2Model ----
(***************************************************************************)
(* State-machine model of src/src/components/ConsultantCapacityDashboard   *)
(* .jsx: the CSV ingestion (handleFileUpload, the Papa.parse callbacks),   *)
(* the workload derivation (processData, generateMonthlyTimeline) and the  *)
(* filter effect (applyFilters).                                           *)
(*                                                                         *)
(* Numbers are IEEE-754 doubles, as in JavaScript.  Every double the       *)
(* component computes is a non-negative multiple of 2^-55 below 16, so a   *)
(* double is kept as three 20-bit limbs <<a, b, c>> standing for           *)
(* (a*2^40 + b*2^20 + c) * 2^-55, and every arithmetic result is rounded   *)
(* to 53 significant bits, ties to even.                                   *)
(*                                                                         *)
(* Time is counted in ticks, TicksPerDay to a day, day 0 being 1 January   *)
(* of BaseYear; the local time zone is taken to be UTC.                    *)
(***************************************************************************)
EXTENDS Integers, Sequences, FiniteSets, Bags, TLC

(***************************************************************************)
(* Bounds of the model.                                                    *)
(***************************************************************************)
MaxRows == 2
MaxLoadRows == 4
MaxPending == 2
MaxSelections == 3

(***************************************************************************)
(* Generic helpers on sequences.                                           *)
(***************************************************************************)
Range(s) == {s[i] : i \in DOMAIN s}

(***************************************************************************)
(* The calendar behind JavaScript's Date: months are numbered from         *)
(* January of BaseYear (month index 0), days from 1 January of BaseYear.   *)
(***************************************************************************)
BaseYear == 2026
TicksPerDay == 2
MaxMonthIndex == 47
\* new Date(null) is 1 January 1970, 20454 days before 1 January 2026
EpochDay == 0 - 20454
\* the time value of an Invalid Date
NaNTime == 0 - 99999999

IsLeap(y) == (y % 4 = 0 /\ y % 100 # 0) \/ y % 400 = 0

\* the days of a common year before each of its months
DaysBeforeMonth == <<0, 31, 59, 90, 120, 151, 181, 212, 243, 273, 304, 334>>

\* the leap years y with BaseYear <= y < year
LeapYearsBefore(year) == Cardinality({y \in BaseYear..(year - 1) : IsLeap(y)})

\* day number of the first day of month index k
MonthStartDay[k \in 0..(MaxMonthIndex + 1)] ==
    LET y == BaseYear + (k \div 12)
        m == k % 12
    IN  365 * (y - BaseYear) + LeapYearsBefore(y) + DaysBeforeMonth[m + 1]
            + (IF m >= 2 /\ IsLeap(y) THEN 1 ELSE 0)

\* getFullYear()*12 + getMonth(), counted from BaseYear, of a day number
MonthIndexOf(day) ==
    CHOOSE k \in 0..MaxMonthIndex : MonthStartDay[k] <= day /\ day < MonthStartDay[k + 1]

\* getDate()
DayOfMonth(day) == day - MonthStartDay[MonthIndexOf(day)] + 1

\* new Date(year, month, 1) with the month overflowing into the year
FirstOfMonth(k) == MonthStartDay[k] * TicksPerDay

\* the day number of a calendar date
DayNumber(y, m, d) == MonthStartDay[(y - BaseYear) * 12 + (m - 1)] + d - 1

isNaN(t) == t = NaNTime

\* a <= b on time values: false when either is NaN
DateLe(a, b) == ~isNaN(a) /\ ~isNaN(b) /\ a <= b

(***************************************************************************)
(* IEEE-754 double arithmetic on limbs.                                    *)
(***************************************************************************)
LimbBase == 1048576

\* the powers of two 2^0 .. 2^20
PowersOfTwo ==
    <<1, 2, 4, 8, 16, 32, 64, 128, 256, 512, 1024, 2048, 4096, 8192, 16384,
      32768, 65536, 131072, 262144, 524288, 1048576>>

Pow2(k) == PowersOfTwo[k + 1]

\* carry propagation: limbs a, b, c >= 0 with c and b possibly >= LimbBase
Norm(a, b, c) ==
    LET b2 == b + (c \div LimbBase)
    IN  <<a + (b2 \div LimbBase), b2 % LimbBase, c % LimbBase>>

\* the number of low bits a value with top limb a has beyond 53 significant bits
DropBits(a) ==
    IF a >= Pow2(18) THEN 6
    ELSE IF a >= Pow2(17) THEN 5
    ELSE IF a >= Pow2(16) THEN 4
    ELSE IF a >= Pow2(15) THEN 3
    ELSE IF a >= Pow2(14) THEN 2
    ELSE IF a >= Pow2(13) THEN 1 ELSE 0

\* round x + (extra / 10) units to 53 significant bits, ties to even
RoundTo53(x, extra) ==
    LET k == DropBits(x[1])
        unit == Pow2(k)
        rem == x[3] % unit
        num == 10 * rem + extra
        half == 5 * unit
        odd == (x[3] \div unit) % 2 = 1
        up == num > half \/ (num = half /\ odd)
    IN  Norm(x[1], x[2], (x[3] - rem) + (IF up THEN unit ELSE 0))

Zero == <<0, 0, 0>>

\* x < y, x <= y on doubles
FLt(x, y) ==
    \/ x[1] < y[1]
    \/ x[1] = y[1] /\ x[2] < y[2]
    \/ x[1] = y[1] /\ x[2] = y[2] /\ x[3] < y[3]

FLe(x, y) == x = y \/ FLt(x, y)

\* the double x + y (0 + y is y)
FAdd(x, y) ==
    IF x = Zero THEN y
    ELSE RoundTo53(Norm(x[1] + y[1], x[2] + y[2], x[3] + y[3]), 0)

\* the double x - y, for x >= y
FSub(x, y) ==
    LET c == x[3] - y[3]
        bc == IF c < 0 THEN 1 ELSE 0
        b == x[2] - y[2] - bc
        bb == IF b < 0 THEN 1 ELSE 0
    IN  RoundTo53(<<x[1] - y[1] - bb, b + bb * LimbBase, c + bc * LimbBase>>, 0)

\* Math.max(0, x - y)
FSubMax0(x, y) == IF FLt(x, y) THEN Zero ELSE FSub(x, y)

\* the double nearest to t/10: the value of a literal or of parseFloat of a
\* decimal string with one fractional digit
ParseTenths(t) ==
    LET a0 == t * Pow2(15)
        qa == a0 \div 10
        b0 == (a0 % 10) * LimbBase
        qb == b0 \div 10
        c0 == (b0 % 10) * LimbBase
        qc == c0 \div 10
    IN  RoundTo53(<<qa, qb, qc>>, c0 % 10)

\* Number.prototype.toFixed(1): the tenths n for which n/10 is nearest to x,
\* the larger n on a tie
ToFixed1(x) ==
    LET n == Norm(10 * x[1], 10 * x[2], 10 * x[3])
    IN  (n[1] + Pow2(14)) \div Pow2(15)

\* x * 2^3: the product of the double 8 and the double x, which is exact
FMul8(x) == Norm(8 * x[1], 8 * x[2], 8 * x[3])

(***************************************************************************)
(* Strings that the component takes apart (the role fields, the consultant *)
(* names, the search text) are sequences of one-character strings.         *)
(***************************************************************************)
Digits == {"0", "1", "2", "3", "4", "5", "6", "7", "8", "9"}

DigitVal(ch) ==
    CASE ch = "0" -> 0 [] ch = "1" -> 1 [] ch = "2" -> 2 [] ch = "3" -> 3
      [] ch = "4" -> 4 [] ch = "5" -> 5 [] ch = "6" -> 6 [] ch = "7" -> 7
      [] ch = "8" -> 8 [] ch = "9" -> 9

\* String.prototype.toLowerCase on the letters the model uses
LowerChar(ch) ==
    CASE ch = "A" -> "a" [] ch = "B" -> "b" [] ch = "L" -> "l" [] ch = "O" -> "o"
      [] OTHER -> ch

toLowerCase(str) == [i \in DOMAIN str |-> LowerChar(str[i])]

\* String.prototype.includes
includes(str, sub) ==
    \E i \in 0..(Len(str) - Len(sub)) : SubSeq(str, i + 1, i + Len(sub)) = sub

\* String.prototype.trim
RECURSIVE trim(_)
trim(str) ==
    IF str = <<>> THEN <<>>
    ELSE IF Head(str) = " " THEN trim(Tail(str))
    ELSE IF str[Len(str)] = " " THEN trim(SubSeq(str, 1, Len(str) - 1))
    ELSE str

\* String.prototype.split(';'): the segments between the separators
RECURSIVE split(_)
split(str) ==
    IF \A i \in DOMAIN str : str[i] # ";" THEN <<str>>
    ELSE LET i == CHOOSE j \in DOMAIN str :
                      str[j] = ";" /\ \A h \in 1..(j - 1) : str[h] # ";"
         IN  <<SubSeq(str, 1, i - 1)>> \o split(SubSeq(str, i + 1, Len(str)))

(***************************************************************************)
(* Papa.parse with header and dynamicTyping: a field of the file becomes   *)
(* null when empty, a number when it is numeric text, and stays a string   *)
(* otherwise.                                                              *)
(***************************************************************************)
IsNumeric(text) ==
    LET t == trim(text) IN t # <<>> /\ \A i \in DOMAIN t : t[i] \in Digits

DynamicTyping(text) ==
    IF text = <<>> THEN [kind |-> "null", text |-> <<>>]
    ELSE IF IsNumeric(text) THEN [kind |-> "number", text |-> trim(text)]
    ELSE [kind |-> "string", text |-> text]

\* the value of a numeric text
RECURSIVE NumVal(_)
NumVal(text) ==
    IF text = <<>> THEN 0
    ELSE 10 * NumVal(SubSeq(text, 1, Len(text) - 1)) + DigitVal(text[Len(text)])

\* JavaScript truthiness of a typed field
Truthy(cell) ==
    CASE cell.kind = "null" -> FALSE
      [] cell.kind = "number" -> NumVal(cell.text) # 0
      [] OTHER -> cell.text # <<>>

(***************************************************************************)
(* Date cells.  A date cell is empty (null), a text new Date() cannot      *)
(* parse, or the text of a calendar date.                                  *)
(***************************************************************************)
NullDate == [kind |-> "null", y |-> 0, m |-> 0, d |-> 0]
BadDate == [kind |-> "text", y |-> 0, m |-> 0, d |-> 0]
DateText(y, m, d) == [kind |-> "date", y |-> y, m |-> m, d |-> d]

\* new Date(cell).getTime()
NewDate(cell) ==
    CASE cell.kind = "null" -> EpochDay * TicksPerDay
      [] cell.kind = "text" -> NaNTime
      [] OTHER -> DayNumber(cell.y, cell.m, cell.d) * TicksPerDay

\* the date text of a day number
DateOfDay(day) ==
    LET k == MonthIndexOf(day)
    IN  DateText(BaseYear + (k \div 12), (k % 12) + 1, day - MonthStartDay[k] + 1)

(***************************************************************************)
(* The workload derivation.                                                *)
(***************************************************************************)
MAX_RECOMMENDED_LOAD == 8

\* the double MAX_RECOMMENDED_LOAD
MaxLoad == ParseTenths(10 * MAX_RECOMMENDED_LOAD)

Roles == <<"Lead", "Co-Lead", "Strategic Advisor", "Supporting">>

\* the role weights in tenths, as the literals of ROLE_WEIGHTS spell them
WeightTenths(role) ==
    CASE role = "Lead" -> 10
      [] role = "Co-Lead" -> 7
      [] role = "Strategic Advisor" -> 3
      [] role = "Supporting" -> 2
      [] OTHER -> 0

\* the doubles of the four literals
WeightTable == [i \in DOMAIN Roles |-> ParseTenths(WeightTenths(Roles[i]))]

\* ROLE_WEIGHTS[role] || 0
ROLE_WEIGHTS(role) ==
    IF \E i \in DOMAIN Roles : Roles[i] = role
    THEN WeightTable[CHOOSE i \in DOMAIN Roles : Roles[i] = role]
    ELSE Zero

\* str ? str.split(';').map(s => s.trim()).filter(Boolean) : []
\* (a truthy field that is no string has no split method: the caller throws)
splitConsultants(cell) ==
    IF ~Truthy(cell) THEN <<>>
    ELSE LET parts == split(cell.text)
             trimmed == [i \in DOMAIN parts |-> trim(parts[i])]
         IN  SelectSeq(trimmed, LAMBDA n : n # <<>>)

\* str.split throws a TypeError
SplitThrows(cell) == Truthy(cell) /\ cell.kind # "string"

RoleField(row, role) ==
    CASE role = "Lead" -> row.ProjectLead
      [] role = "Co-Lead" -> row.ProjectCoLead
      [] role = "Strategic Advisor" -> row.ProjectStrategicAdvisors
      [] OTHER -> row.ProjectSupportingConsultants

\* the record processRole pushes
Assignment(row, role) ==
    [projectName |-> row.DealName,
     role |-> role,
     startDate |-> row.ContractStartDate,
     endDate |-> row.ContractEndDate,
     businessLine |-> row.PrimaryBusinessLine]

\* the pushes processRole makes for one role of a row: one for every
\* consultant the field names, in the order of the names
processRole(row, role) ==
    LET names == splitConsultants(RoleField(row, role))
    IN  [i \in DOMAIN names |-> [name |-> names[i], project |-> Assignment(row, role)]]

\* the four processRole calls on one row
ProcessRow(row) ==
    processRole(row, Roles[1]) \o processRole(row, Roles[2])
        \o processRole(row, Roles[3]) \o processRole(row, Roles[4])

\* parsedData.data.forEach: the pushes of all rows, in order
RECURSIVE ProcessRows(_)
ProcessRows(rows) ==
    IF rows = <<>> THEN <<>>
    ELSE ProcessRows(SubSeq(rows, 1, Len(rows) - 1)) \o ProcessRow(rows[Len(rows)])

\* the elements of seq at the indices in I, in ascending order of index
AtIndices(seq, I) ==
    [k \in 1..Cardinality(I) |->
        seq[CHOOSE i \in I : Cardinality({j \in I : j < i}) = k - 1]]

\* projectsByConsultant after the loop: its own properties in creation
\* order, each with the projects pushed to it, in the order of the pushes
projectsByConsultant(rows) ==
    LET pushes == ProcessRows(rows)
        created == AtIndices(pushes, {i \in DOMAIN pushes :
                        \A j \in 1..(i - 1) : pushes[j].name # pushes[i].name})
    IN  [k \in DOMAIN created |->
            LET name == created[k].name
                mine == SelectSeq(pushes, LAMBDA p : p.name = name)
            IN  [name |-> name, projects |-> [i \in DOMAIN mine |-> mine[i].project]]]

\* a property name that is a canonical array index
IsArrayIndex(name) ==
    /\ name # <<>>
    /\ \A i \in DOMAIN name : name[i] \in Digits
    /\ (Len(name) > 1 => name[1] # "0")
    /\ Len(name) <= 9

\* Object.entries: the array-index keys in ascending numeric order, then the
\* other keys in creation order
RECURSIVE InsertByIndex(_, _)
InsertByIndex(sorted, e) ==
    IF sorted = <<>> THEN <<e>>
    ELSE IF NumVal(e.name) < NumVal(Head(sorted).name) THEN <<e>> \o sorted
    ELSE <<Head(sorted)>> \o InsertByIndex(Tail(sorted), e)

RECURSIVE SortByIndex(_)
SortByIndex(es) ==
    IF es = <<>> THEN <<>>
    ELSE InsertByIndex(SortByIndex(SubSeq(es, 1, Len(es) - 1)), es[Len(es)])

ObjectEntries(obj) ==
    SortByIndex(SelectSeq(obj, LAMBDA e : IsArrayIndex(e.name)))
        \o SelectSeq(obj, LAMBDA e : ~IsArrayIndex(e.name))

\* _.uniqBy(projects, 'projectName'): the first project of every name
uniqBy(projects) ==
    AtIndices(projects, {i \in DOMAIN projects :
        \A j \in 1..(i - 1) : projects[j].projectName # projects[i].projectName})

\* the test both generateMonthlyTimeline and currentLoad apply to a project
IsActiveAt(project, t) ==
    LET startDate == NewDate(project.startDate)
        endDate == NewDate(project.endDate)
    IN  (~isNaN(startDate) /\ ~isNaN(endDate)) /\ (t >= startDate /\ t <= endDate)

\* activeProjects.reduce((total, project) => total + (ROLE_WEIGHTS[..] || 0), 0)
RECURSIVE ReduceWeights(_)
ReduceWeights(active) ==
    IF active = <<>> THEN Zero
    ELSE FAdd(ReduceWeights(SubSeq(active, 1, Len(active) - 1)),
              ROLE_WEIGHTS(active[Len(active)].role))

\* month.toLocaleString('default', {month: 'short', year: '2-digit'})
MonthLabel(k) == [mon |-> (k % 12) + 1, yy |-> (BaseYear + (k \div 12)) % 100]

\* the object one month of the timeline maps to, given its active projects
\* and their reduced weight
SnapshotOf(k, activeProjects, weightedLoad) ==
    [month |-> MonthLabel(k),
     projects |-> Len(activeProjects),
     weightedLoad |-> ParseTenths(ToFixed1(weightedLoad)),
     capacity |-> FSubMax0(MaxLoad, weightedLoad),
     details |-> [i \in DOMAIN activeProjects |->
                    [name |-> activeProjects[i].projectName,
                     role |-> activeProjects[i].role,
                     businessLine |-> activeProjects[i].businessLine]]]

ActiveProjects(projects, month) == SelectSeq(projects, LAMBDA p : IsActiveAt(p, month))

\* one entry of the timeline, for the month with index k
Snapshot(projects, k) ==
    SnapshotOf(k, ActiveProjects(projects, FirstOfMonth(k)),
               ReduceWeights(ActiveProjects(projects, FirstOfMonth(k))))

\* generateMonthlyTimeline with the loop starting a month late
generateMonthlyTimelineFromNext(projects, today) ==
    LET k0 == MonthIndexOf(today \div TicksPerDay)
    IN  [i \in 1..12 |-> Snapshot(projects, k0 + i)]

generateMonthlyTimeline(projects, today) ==
    LET k0 == MonthIndexOf(today \div TicksPerDay)
    IN  [i \in 1..12 |-> Snapshot(projects, k0 + (i - 1))]

\* Array.prototype.sort((a, b) => b.currentLoad - a.currentLoad): stable
RECURSIVE InsertByLoad(_, _)
InsertByLoad(sorted, c) ==
    IF sorted = <<>> THEN <<c>>
    ELSE IF c.currentLoad > Head(sorted).currentLoad THEN <<c>> \o sorted
    ELSE <<Head(sorted)>> \o InsertByLoad(Tail(sorted), c)

RECURSIVE SortByLoad(_)
SortByLoad(cs) ==
    IF cs = <<>> THEN <<>>
    ELSE InsertByLoad(SortByLoad(SubSeq(cs, 1, Len(cs) - 1)), cs[Len(cs)])

\* the record processData builds for one entry of projectsByConsultant
ConsultantRecord(entry, today) ==
    [name |-> entry.name,
     projects |-> uniqBy(entry.projects),
     timeline |-> generateMonthlyTimeline(entry.projects, today),
     currentLoad |-> Len(SelectSeq(entry.projects, LAMBDA p : IsActiveAt(p, today)))]

consultantsWithTimeline(rows, today) ==
    LET entries == ObjectEntries(projectsByConsultant(rows))
    IN  SortByLoad([i \in DOMAIN entries |-> ConsultantRecord(entries[i], today)])

\* _.uniq(rows.map(project => project['Primary Business Line']).filter(Boolean))
RECURSIVE uniq(_)
uniq(xs) ==
    IF xs = <<>> THEN <<>>
    ELSE LET init == SubSeq(xs, 1, Len(xs) - 1)
         IN  IF xs[Len(xs)] \in Range(init) THEN uniq(init)
             ELSE Append(uniq(init), xs[Len(xs)])

businessLinesOf(rows) ==
    uniq(SelectSeq([i \in DOMAIN rows |-> rows[i].PrimaryBusinessLine],
                   LAMBDA b : b # ""))

\* what the try block of processData throws, "" when it runs to its end
ProcessThrows(parsedData) ==
    IF ~parsedData.hasData
    THEN "Cannot read properties of undefined (reading 'forEach')"
    ELSE IF \E i \in DOMAIN parsedData.data : \E r \in DOMAIN Roles :
                SplitThrows(RoleField(parsedData.data[i], Roles[r]))
    THEN "str.split is not a function"
    ELSE ""

(***************************************************************************)
(* The filter engine.                                                      *)
(***************************************************************************)
\* parseInt(filters.timeframe)
parseInt(timeframe) ==
    CASE timeframe = "3months" -> 3
      [] timeframe = "6months" -> 6
      [] timeframe = "12months" -> 12

\* cutoffDate = new Date(); cutoffDate.setMonth(cutoffDate.getMonth() + months):
\* the day of the month and the time of day are kept, and a day beyond the end
\* of the target month runs over into the next month
CutoffDate(today, months) ==
    LET day == today \div TicksPerDay
    IN  (MonthStartDay[MonthIndexOf(day) + months] + DayOfMonth(day) - 1) * TicksPerDay
            + (today % TicksPerDay)

\* MAX_RECOMMENDED_LOAD * 0.8
AtCapacityFrom == FMul8(ParseTenths(MAX_RECOMMENDED_LOAD))

\* the switch with over-capacity starting at the recommended load itself
CapacityMatchesFromMax(consultant, capacityStatus) ==
    LET currentLoad == consultant.timeline[1].weightedLoad
    IN  CASE capacityStatus = "available" -> FLt(currentLoad, AtCapacityFrom)
          [] capacityStatus = "at-capacity" ->
                FLe(AtCapacityFrom, currentLoad) /\ FLe(currentLoad, MaxLoad)
          [] capacityStatus = "over-capacity" -> FLe(MaxLoad, currentLoad)
          [] OTHER -> TRUE

\* the switch on filters.capacityStatus
CapacityMatches(consultant, capacityStatus) ==
    LET currentLoad == consultant.timeline[1].weightedLoad
    IN  CASE capacityStatus = "available" -> FLt(currentLoad, AtCapacityFrom)
          [] capacityStatus = "at-capacity" ->
                FLe(AtCapacityFrom, currentLoad) /\ FLe(currentLoad, MaxLoad)
          [] capacityStatus = "over-capacity" -> FLt(MaxLoad, currentLoad)
          [] OTHER -> TRUE

\* the business-line step dropping the consultants it leaves without projects
BusinessLineStepDropsEmpty(data, f) ==
    IF f.businessLine # "all"
    THEN SelectSeq([i \in DOMAIN data |->
                      [data[i] EXCEPT !.projects =
                          SelectSeq(@, LAMBDA p : p.businessLine = f.businessLine)]],
                   LAMBDA c : c.projects # <<>>)
    ELSE data

BusinessLineStep(data, f) ==
    IF f.businessLine # "all"
    THEN [i \in DOMAIN data |->
            [data[i] EXCEPT !.projects =
                SelectSeq(@, LAMBDA p : p.businessLine = f.businessLine)]]
    ELSE data

\* the timeframe step with endDate < cutoffDate
TimeframeStepStrict(data, f, today) ==
    IF f.timeframe # "all"
    THEN LET cutoffDate == CutoffDate(today, parseInt(f.timeframe))
         IN  [i \in DOMAIN data |->
                [data[i] EXCEPT !.projects =
                    SelectSeq(@, LAMBDA p :
                        /\ DateLe(NewDate(p.endDate), cutoffDate)
                        /\ NewDate(p.endDate) # cutoffDate)]]
    ELSE data

TimeframeStep(data, f, today) ==
    IF f.timeframe # "all"
    THEN LET cutoffDate == CutoffDate(today, parseInt(f.timeframe))
         IN  [i \in DOMAIN data |->
                [data[i] EXCEPT !.projects =
                    SelectSeq(@, LAMBDA p : DateLe(NewDate(p.endDate), cutoffDate))]]
    ELSE data

CapacityStep(data, f) ==
    IF f.capacityStatus # "all"
    THEN SelectSeq(data, LAMBDA c : CapacityMatches(c, f.capacityStatus))
    ELSE data

SearchStep(data, f) ==
    IF f.consultantSearch # <<>>
    THEN SelectSeq(data, LAMBDA c :
            includes(toLowerCase(c.name), toLowerCase(f.consultantSearch)))
    ELSE data

\* applyFilters without the consultant search
applyFiltersNoSearch(data, f, today) ==
    CapacityStep(TimeframeStep(BusinessLineStep(data, f), f, today), f)

applyFilters(data, f, today) ==
    SearchStep(CapacityStep(TimeframeStep(BusinessLineStep(data, f), f, today), f), f)

(***************************************************************************)
(* The inputs: the clock, and the files the user can select.               *)
(***************************************************************************)
\* new Date() during a session: 5 November 2026 at noon, or 31 August 2026 at
\* midnight (a day of the month that the months three and six later lack)
Nows == {DayNumber(2026, 11, 5) * TicksPerDay + 1,
         DayNumber(2026, 8, 31) * TicksPerDay}

Al == <<"A", "l">>
Bo == <<"B", "o">>
NoText == <<>>

RawRow(deal, lead, coLead, advisors, supporting, startDate, endDate, line) ==
    [DealName |-> deal,
     ProjectLead |-> lead,
     ProjectCoLead |-> coLead,
     ProjectStrategicAdvisors |-> advisors,
     ProjectSupportingConsultants |-> supporting,
     ContractStartDate |-> startDate,
     ContractEndDate |-> endDate,
     PrimaryBusinessLine |-> line]

\* the four role fields of a row of the derivation inputs: one consultant in
\* two roles; two consultants, a padded name and an empty segment; a name
\* that is a number beside another name; a field that is a number
RolePatterns ==
    {<<Al, Al, NoText, NoText>>,
     <<NoText, Al, Al, <<" ", "B", "o", " ", ";">> >>,
     <<<<"B", "o", ";", "7">>, NoText, NoText, NoText>>,
     <<NoText, NoText, NoText, <<"4", "2">> >>}

\* the date ranges of the derivation inputs, for the month index k0 of today:
\* the current month up to today; the three months after the current one;
\* an unparseable start date
DateRanges(today) ==
    LET day == today \div TicksPerDay
        k0 == MonthIndexOf(day)
    IN  {<<DateOfDay(MonthStartDay[k0]), DateOfDay(day)>>,
         <<DateOfDay(MonthStartDay[k0 + 1]), DateOfDay(MonthStartDay[k0 + 3])>>,
         <<BadDate, DateOfDay(MonthStartDay[k0 + 3])>>}

Deals == {<<"D1", "Tax">>, <<"D2", "Audit">>}

DeriveRows(today) ==
    {RawRow(d[1], p[1], p[2], p[3], p[4], r[1], r[2], d[2]) :
        d \in Deals, p \in RolePatterns, r \in DateRanges(today)}

CsvFile(rows) == [kind |-> "csv", rows |-> rows]
\* a file the browser cannot read: Papa.parse calls the error callback
UnreadableFile == [kind |-> "unreadable", rows |-> <<>>]
\* a parse result that has no data list
MalformedFile == [kind |-> "malformed", rows |-> <<>>]

SeqsUpTo(S, n) == UNION {[1..m -> S] : m \in 0..n}

DeriveFiles(today) == {CsvFile(rows) : rows \in SeqsUpTo(DeriveRows(today), MaxRows)}

\* the rows of the load inputs: every row is active in the current month.
\* Row 1: all four roles (2.2), no start date, ends after the timeline;
\* row 2: three roles (2.0), ends on the day three months from today;
\* row 3: three roles (1.9) and a second consultant, ends a day later;
\* row 4: another consultant, with an unparseable end date.
LoadRow(n, today) ==
    LET day == today \div TicksPerDay
        first == DateOfDay(MonthStartDay[MonthIndexOf(day)])
        cut == CutoffDate(today, 3) \div TicksPerDay
    IN  CASE n = 1 -> RawRow("D1", Al, Al, Al, Al, NullDate,
                             DateOfDay(MonthStartDay[MonthIndexOf(day) + 13]), "Tax")
          [] n = 2 -> RawRow("D2", Al, Al, Al, NoText, first, DateOfDay(cut), "Audit")
          [] n = 3 -> RawRow("D3", Al, Al, NoText, <<"B", "o", ";", "A", "l">>,
                             first, DateOfDay(cut + 1), "")
          [] OTHER -> RawRow("D4", Bo, NoText, NoText, NoText, first, BadDate, "Tax")

\* files of up to MaxLoadRows load rows, in the order of the row numbers
LoadFiles(today) ==
    {CsvFile([i \in DOMAIN ns |-> LoadRow(ns[i], today)]) :
        ns \in {q \in SeqsUpTo(1..4, MaxLoadRows) :
                    \A i \in 1..(Len(q) - 1) : q[i] <= q[i + 1]}}

\* the files of a session of uploads and filter changes
SessionFiles(today) ==
    {CsvFile(<<LoadRow(1, today)>>),
     CsvFile(<<LoadRow(3, today), LoadRow(4, today)>>),
     CsvFile(<<RawRow("D5", NoText, <<"4", "2">>, NoText, NoText,
                      NullDate, NullDate, "")>>),
     UnreadableFile,
     MalformedFile}

\* the typed rows Papa.parse hands to the complete callback
ParseRow(raw) ==
    [raw EXCEPT !.ProjectLead = DynamicTyping(@),
                !.ProjectCoLead = DynamicTyping(@),
                !.ProjectStrategicAdvisors = DynamicTyping(@),
                !.ProjectSupportingConsultants = DynamicTyping(@)]

ParseResults(file) ==
    [hasData |-> file.kind = "csv",
     data |-> [i \in DOMAIN file.rows |-> ParseRow(file.rows[i])]]

SearchTexts == {<<>>, <<"L">>}
Timeframes == {"all", "3months", "6months", "12months"}
CapacityStatuses == {"all", "available", "at-capacity", "over-capacity"}

(***************************************************************************)
(* The component's state.                                                  *)
(***************************************************************************)
VARIABLES
    consultantData,   \* the base dataset
    filteredData,     \* the filtered view
    isLoading,
    error,            \* <<>> for null, else <<prefix, reason>>
    filters,
    businessLines,    \* filterOptions.businessLines
    pending,          \* the bag of files Papa.parse is still reading
    effectDue,        \* a render changed filters or consultantData
    now,              \* new Date()
    disk,             \* the files the user can select
    selected,         \* history: the files selected so far, in order, each with
                      \* the number of parses that were pending when it was
    exportFormat,     \* history: the format of the last exportData call
    download          \* the last file handed to downloadFile, <<>> for none

\* what the component leaves behind outside its own state
outside == <<selected, exportFormat, download>>

vars == <<consultantData, filteredData, isLoading, error, filters, businessLines,
          pending, effectDue, now, disk, outside>>

InitState ==
    /\ consultantData = <<>>
    /\ filteredData = <<>>
    /\ isLoading = FALSE
    /\ error = <<>>
    /\ filters = [businessLine |-> "all", timeframe |-> "all",
                  capacityStatus |-> "all", consultantSearch |-> <<>>]
    /\ businessLines = <<>>
    /\ pending = EmptyBag
    /\ effectDue = TRUE
    /\ selected = <<>>
    /\ exportFormat = ""
    /\ download = <<>>

\* a session over the session files, on 5 November 2026 at noon
Init ==
    /\ InitState
    /\ now = DayNumber(2026, 11, 5) * TicksPerDay + 1
    /\ disk = SessionFiles(now)

\* a session over one file of the load inputs
InitFilter ==
    /\ InitState
    /\ now \in Nows
    /\ disk \in {{f} : f \in LoadFiles(now)}

\* a single upload of one file of the derivation inputs
InitDerive ==
    /\ InitState
    /\ now \in Nows
    /\ disk \in {{f} : f \in DeriveFiles(now)}

(***************************************************************************)
(* The handlers.  React runs a pending effect before it handles the next   *)
(* event, so every handler waits for effectDue to be cleared.              *)
(***************************************************************************)
\* handleFileUpload with a file selected: Papa.parse starts reading it
HandleFileUpload(file) ==
    /\ ~effectDue
    /\ BagCardinality(pending) < MaxPending
    /\ isLoading' = TRUE
    /\ error' = <<>>
    /\ pending' = pending (+) SetToBag({file})
    /\ UNCHANGED <<consultantData, filteredData, filters, businessLines,
                   effectDue, now, disk>>

\* handleFileUpload with no file selected
HandleFileUploadNoFile ==
    /\ ~effectDue
    /\ isLoading' = FALSE
    /\ error' = <<>>
    /\ UNCHANGED <<consultantData, filteredData, filters, businessLines,
                   pending, effectDue, now, disk>>

\* processData with a catch block that also empties the dataset
processDataDropsData(parsedData) ==
    LET thrown == ProcessThrows(parsedData)
    IN  IF thrown = ""
        THEN /\ consultantData' = consultantsWithTimeline(parsedData.data, now)
             /\ filteredData' = consultantData'
             /\ businessLines' = businessLinesOf(parsedData.data)
             /\ effectDue' = TRUE
             /\ UNCHANGED error
        ELSE /\ error' = <<"Error processing data: ", thrown>>
             /\ consultantData' = <<>>
             /\ effectDue' = TRUE
             /\ UNCHANGED <<filteredData, businessLines>>

\* processData, as the state it leaves
processData(parsedData) ==
    LET thrown == ProcessThrows(parsedData)
    IN  IF thrown = ""
        THEN LET result == consultantsWithTimeline(parsedData.data, now)
             IN  /\ consultantData' = result
                 /\ filteredData' = consultantData'
                 /\ businessLines' = businessLinesOf(parsedData.data)
                 /\ effectDue' = TRUE
                 /\ UNCHANGED error
        ELSE /\ error' = <<"Error processing data: ", thrown>>
             /\ UNCHANGED <<consultantData, filteredData, businessLines, effectDue>>

\* the complete callback of a pending parse
ParseComplete(file) ==
    /\ ~effectDue
    /\ BagIn(file, pending)
    /\ file.kind # "unreadable"
    /\ processData(ParseResults(file))
    /\ isLoading' = FALSE
    /\ pending' = pending (-) SetToBag({file})
    /\ UNCHANGED <<filters, now, disk>>

\* the error callback of a pending parse
ParseError(file) ==
    /\ ~effectDue
    /\ BagIn(file, pending)
    /\ file.kind = "unreadable"
    /\ error' = <<"Error parsing CSV: ", "The file could not be read">>
    /\ isLoading' = FALSE
    /\ pending' = pending (-) SetToBag({file})
    /\ UNCHANGED <<consultantData, filteredData, filters, businessLines,
                   effectDue, now, disk>>

\* the onChange handlers of the four filter controls
SetFilters(next) ==
    /\ ~effectDue
    /\ next # filters
    /\ filters' = next
    /\ effectDue' = TRUE
    /\ UNCHANGED <<consultantData, filteredData, isLoading, error, businessLines,
                   pending, now, disk>>

SetBusinessLine ==
    \E v \in {"all"} \cup Range(businessLines) :
        SetFilters([filters EXCEPT !.businessLine = v])

SetTimeframe ==
    \E v \in Timeframes : SetFilters([filters EXCEPT !.timeframe = v])

SetCapacityStatus ==
    \E v \in CapacityStatuses : SetFilters([filters EXCEPT !.capacityStatus = v])

SetConsultantSearch ==
    \E v \in SearchTexts : SetFilters([filters EXCEPT !.consultantSearch = v])

\* the effect on [filters, consultantData]
RunEffect ==
    /\ effectDue
    /\ filteredData' = applyFilters(consultantData, filters, now)
    /\ effectDue' = FALSE
    /\ UNCHANGED <<consultantData, isLoading, error, filters, businessLines,
                   pending, now, disk>>

Upload == \E file \in disk : HandleFileUpload(file)
Complete == \E file \in disk : ParseComplete(file)
Failed == \E file \in disk : ParseError(file)

Next ==
    \/ Upload /\ UNCHANGED outside
    \/ HandleFileUploadNoFile /\ UNCHANGED outside
    \/ Complete /\ UNCHANGED outside
    \/ Failed /\ UNCHANGED outside
    \/ SetBusinessLine /\ UNCHANGED outside
    \/ SetTimeframe /\ UNCHANGED outside
    \/ SetCapacityStatus /\ UNCHANGED outside
    \/ SetConsultantSearch /\ UNCHANGED outside
    \/ RunEffect /\ UNCHANGED outside

Spec == Init /\ [][Next]_vars

\* the first upload of a session
FirstUpload ==
    /\ consultantData = <<>>
    /\ error = <<>>
    /\ pending = EmptyBag
    /\ Upload

\* the upload cycle alone
NextDerive ==
    \/ FirstUpload /\ UNCHANGED outside
    \/ Complete /\ UNCHANGED outside
    \/ RunEffect /\ UNCHANGED outside

SpecDerive == InitDerive /\ [][NextDerive]_vars

\* one upload, then changes of the business line, the timeframe and the
\* capacity status
NextFilter ==
    \/ FirstUpload /\ UNCHANGED outside
    \/ Complete /\ UNCHANGED outside
    \/ consultantData # <<>> /\ SetBusinessLine /\ UNCHANGED outside
    \/ consultantData # <<>> /\ SetTimeframe /\ UNCHANGED outside
    \/ consultantData # <<>> /\ SetCapacityStatus /\ UNCHANGED outside
    \/ RunEffect /\ UNCHANGED outside

SpecFilter == InitFilter /\ [][NextFilter]_vars

(***************************************************************************)
(* The export.  A downloaded file is kept as its name, its content type    *)
(* and what Papa.unparse or JSON.stringify wrote: the header fields and    *)
(* one line of values per row, or the serialized value.                    *)
(***************************************************************************)
\* x - y on doubles, of either sign
FSubSigned(x, y) ==
    IF FLe(y, x) THEN [neg |-> FALSE, mag |-> FSub(x, y)]
    ELSE [neg |-> TRUE, mag |-> FSub(y, x)]

CsvFields ==
    <<"Consultant", "Project", "Role", "Business Line", "Start Date", "End Date",
      "Current Load", "Available Capacity">>

ExcelFields ==
    <<"Consultant", "Month", "Project Load", "Available Capacity", "Active Projects">>

\* the object the csv case maps a project of a consultant to
CsvRow(consultant, project) ==
    [f \in Range(CsvFields) |->
        CASE f = "Consultant" -> consultant.name
          [] f = "Project" -> project.projectName
          [] f = "Role" -> project.role
          [] f = "Business Line" -> project.businessLine
          [] f = "Start Date" -> project.startDate
          [] f = "End Date" -> project.endDate
          [] f = "Current Load" -> consultant.timeline[1].weightedLoad
          [] OTHER -> FSubSigned(MaxLoad, consultant.timeline[1].weightedLoad)]

\* filteredData.flatMap(consultant => consultant.projects.map(...))
RECURSIVE CsvData(_)
CsvData(data) ==
    IF data = <<>> THEN <<>>
    ELSE [i \in DOMAIN Head(data).projects |-> CsvRow(Head(data), Head(data).projects[i])]
            \o CsvData(Tail(data))

\* names.join('; ')
RECURSIVE join(_)
join(names) ==
    IF Len(names) <= 1 THEN names
    ELSE <<Head(names), "; ">> \o join(Tail(names))

\* the object the excel case maps a month of a consultant to
ExcelRow(consultant, month) ==
    [f \in Range(ExcelFields) |->
        CASE f = "Consultant" -> consultant.name
          [] f = "Month" -> month.month
          [] f = "Project Load" -> month.weightedLoad
          [] f = "Available Capacity" -> month.capacity
          [] OTHER -> join([i \in DOMAIN month.details |-> month.details[i].name])]

\* filteredData.flatMap(consultant => consultant.timeline.map(...))
RECURSIVE ExcelData(_)
ExcelData(data) ==
    IF data = <<>> THEN <<>>
    ELSE [i \in DOMAIN Head(data).timeline |-> ExcelRow(Head(data), Head(data).timeline[i])]
            \o ExcelData(Tail(data))

\* Papa.unparse of an array of objects: the keys of the first object as the
\* header, then a line per object; nothing for an empty array
unparse(rows, fields) ==
    IF rows = <<>> THEN [header |-> <<>>, lines |-> <<>>]
    ELSE [header |-> fields,
          lines |-> [i \in DOMAIN rows |-> [j \in DOMAIN fields |-> rows[i][fields[j]]]]]

\* the file downloadFile is called with
DownloadFile(content, value, extension, type, today) ==
    [name |-> <<"capacity-report-", DateOfDay(today \div TicksPerDay), extension>>,
     type |-> type,
     header |-> content.header,
     lines |-> content.lines,
     value |-> value]

\* the csv case with the capacity of the first timeline entry, which is clamped
ExportedFileClamped(format, data, today) ==
    CASE format = "csv" ->
            LET rows == CsvData(data)
                clamped == [i \in DOMAIN rows |->
                    [rows[i] EXCEPT !["Available Capacity"] =
                        [neg |-> FALSE,
                         mag |-> FSubMax0(MaxLoad, rows[i]["Current Load"])]]]
            IN  <<DownloadFile(unparse(clamped, CsvFields), <<>>, ".csv", "text/csv", today)>>
      [] format = "excel" ->
            <<DownloadFile(unparse(ExcelData(data), ExcelFields), <<>>, ".xlsx",
                "application/vnd.openxmlformats-officedocument.spreadsheetml.sheet",
                today)>>
      [] format = "json" ->
            <<DownloadFile(unparse(<<>>, <<>>), data, ".json", "application/json", today)>>
      [] OTHER -> <<>>

\* the switch of exportData: the file it downloads, <<>> when it downloads none
ExportedFile(format, data, today) ==
    CASE format = "csv" ->
            <<DownloadFile(unparse(CsvData(data), CsvFields), <<>>, ".csv", "text/csv",
                today)>>
      [] format = "excel" ->
            <<DownloadFile(unparse(ExcelData(data), ExcelFields), <<>>, ".xlsx",
                "application/vnd.openxmlformats-officedocument.spreadsheetml.sheet",
                today)>>
      [] format = "json" ->
            <<DownloadFile(unparse(<<>>, <<>>), data, ".json", "application/json", today)>>
      [] OTHER -> <<>>

\* the formats of the three export buttons, and one exportData does not know
ExportFormats == {"csv", "excel", "json", "pdf"}

\* exportData(format)
ExportData(format) ==
    /\ ~effectDue
    /\ exportFormat' = format
    /\ download' = IF ExportedFile(format, filteredData, now) = <<>> THEN download
                   ELSE ExportedFile(format, filteredData, now)
    /\ UNCHANGED <<consultantData, filteredData, isLoading, error, filters,
                   businessLines, pending, effectDue, now, disk, selected>>

Export == \E format \in ExportFormats : ExportData(format)

\* the files of the export sessions: a consultant over the recommended load
\* and one whose projects a business line can filter away; a consultant at
\* the recommended load; consultants with spare capacity
ExportFiles(today) ==
    {CsvFile(<<LoadRow(1, today), LoadRow(1, today), LoadRow(1, today), LoadRow(3, today)>>),
     CsvFile(<<LoadRow(2, today), LoadRow(2, today), LoadRow(2, today), LoadRow(2, today)>>),
     CsvFile(<<LoadRow(1, today), LoadRow(3, today), LoadRow(4, today)>>)}

InitExport ==
    /\ InitState
    /\ now = DayNumber(2026, 11, 5) * TicksPerDay + 1
    /\ disk \in {{f} : f \in ExportFiles(now)}

\* one upload, then changes of the business line and the capacity status,
\* and exports of the view
NextExport ==
    \/ FirstUpload /\ UNCHANGED outside
    \/ Complete /\ UNCHANGED outside
    \/ consultantData # <<>> /\ SetBusinessLine /\ UNCHANGED outside
    \/ consultantData # <<>> /\ SetCapacityStatus /\ UNCHANGED outside
    \/ RunEffect /\ UNCHANGED outside
    \/ Export

SpecExport == InitExport /\ [][NextExport]_vars

(***************************************************************************)
(* Overlapping uploads.  Papa.parse reads a File asynchronously and calls  *)
(* back when it is done, so the callbacks of two parses in flight come in  *)
(* either order; Complete takes any pending file.  The selections are      *)
(* recorded to tell which file was selected last.                          *)
(***************************************************************************)
UploadTracked ==
    /\ Len(selected) < MaxSelections
    /\ \E file \in disk :
          /\ HandleFileUpload(file)
          /\ selected' = Append(selected,
                [file |-> file, during |-> BagCardinality(pending)])
    /\ UNCHANGED <<exportFormat, download>>

InitRace ==
    /\ InitState
    /\ now = DayNumber(2026, 11, 5) * TicksPerDay + 1
    /\ disk = ExportFiles(now)

NextRace ==
    \/ UploadTracked
    \/ Complete /\ UNCHANGED outside
    \/ RunEffect /\ UNCHANGED outside

SpecRace == InitRace /\ [][NextRace]_vars

(***************************************************************************)
(* The derivation claims, checked under SpecDerive, where the one file of  *)
(* the disk is the source of every dataset.                                *)
(***************************************************************************)
\* the typed rows of the file of the disk
SourceRows == ParseResults(CHOOSE f \in disk : TRUE).data

\* the role weights of a list of projects that are active at time t, in tenths
RECURSIVE ActiveTenths(_, _)
ActiveTenths(projects, t) ==
    IF projects = <<>> THEN 0
    ELSE (IF /\ ~isNaN(NewDate(Head(projects).startDate))
             /\ ~isNaN(NewDate(Head(projects).endDate))
             /\ NewDate(Head(projects).startDate) <= t
             /\ t <= NewDate(Head(projects).endDate)
          THEN WeightTenths(Head(projects).role) ELSE 0)
         + ActiveTenths(Tail(projects), t)

\* the year and the month (1..12) that lie i months after those of today
MonthAfter(today, i) ==
    LET d == DateOfDay(today \div TicksPerDay)
        m == (d.m - 1) + i
    IN  [y |-> d.y + (m \div 12), m |-> (m % 12) + 1]

FirstDayTime(ym) == DayNumber(ym.y, ym.m, 1) * TicksPerDay

\* C1: in every consultant record and every month of its timeline,
\* weightedLoad is the sum, to one decimal, of the role weights of the
\* consultant's assignments that are active on the first of the month.
C1_WeightedLoadOfAssignments ==
    \A n \in DOMAIN consultantData : \A i \in 1..12 :
        LET c == consultantData[n]
        IN  /\ c.timeline[i].weightedLoad =
                    ParseTenths(ActiveTenths(c.projects,
                                             FirstDayTime(MonthAfter(now, i - 1))))
            /\ FLe(Zero, c.timeline[i].weightedLoad)

\* C2: every consultant's timeline has 12 entries, entry i being the
\* calendar month i - 1 months after the current month.
C2_TimelineMonths ==
    \A n \in DOMAIN consultantData :
        /\ Len(consultantData[n].timeline) = 12
        /\ \A i \in 1..12 :
              consultantData[n].timeline[i].month =
                  [mon |-> MonthAfter(now, i - 1).m,
                   yy |-> MonthAfter(now, i - 1).y % 100]

\* C2 witness: a consultant with an assignment whose start date is
\* unparseable and one whose dates are valid has its 12 months
C2_Witness ==
    \E n \in DOMAIN consultantData :
        /\ Len(consultantData[n].timeline) = 12
        /\ \E p \in Range(consultantData[n].projects) : p.startDate = BadDate
        /\ \E p \in Range(consultantData[n].projects) : p.startDate.kind = "date"
        /\ consultantData[n].timeline[2].projects > 0

\* C3: in every timeline entry, capacity is max(0, 8 - weightedLoad) of the
\* entry's own weighted load, and is not negative.
C3_CapacityOfWeightedLoad ==
    \A n \in DOMAIN consultantData : \A i \in 1..12 :
        LET e == consultantData[n].timeline[i]
        IN  /\ e.capacity = FSubMax0(MaxLoad, e.weightedLoad)
            /\ FLe(Zero, e.capacity)

\* C4: currentLoad is the number of projects of the consultant's
\* de-duplicated assignment collection whose valid date range contains now.
C4_CurrentLoadCountsProjects ==
    \A n \in DOMAIN consultantData :
        LET c == consultantData[n]
        IN  c.currentLoad =
                Cardinality({i \in DOMAIN c.projects :
                    /\ ~isNaN(NewDate(c.projects[i].startDate))
                    /\ ~isNaN(NewDate(c.projects[i].endDate))
                    /\ NewDate(c.projects[i].startDate) <= now
                    /\ now <= NewDate(c.projects[i].endDate)})

\* the names of the source in the order they are first seen: by row, then by
\* role field, then within the field
RECURSIVE NamesOfRows(_)
NamesOfRows(rows) ==
    IF rows = <<>> THEN <<>>
    ELSE splitConsultants(Head(rows).ProjectLead)
            \o splitConsultants(Head(rows).ProjectCoLead)
            \o splitConsultants(Head(rows).ProjectStrategicAdvisors)
            \o splitConsultants(Head(rows).ProjectSupportingConsultants)
            \o NamesOfRows(Tail(rows))

FirstSeen(names, name) ==
    CHOOSE i \in DOMAIN names :
        names[i] = name /\ \A h \in 1..(i - 1) : names[h] # name

\* C5: the dataset is in non-increasing order of currentLoad, and consultants
\* of equal currentLoad are in the order their names are first seen.
C5_SortedStable ==
    \A i, j \in DOMAIN consultantData :
        i < j =>
            /\ consultantData[i].currentLoad >= consultantData[j].currentLoad
            /\ consultantData[i].currentLoad = consultantData[j].currentLoad =>
                  FirstSeen(NamesOfRows(SourceRows), consultantData[i].name)
                      < FirstSeen(NamesOfRows(SourceRows), consultantData[j].name)

(***************************************************************************)
(* The filter claims, checked under SpecFilter.                            *)
(***************************************************************************)
\* the weighted load of the first timeline entry, in tenths
LoadTenths(c) == ToFixed1(c.timeline[1].weightedLoad)

\* the class of a consultant: available below 6.4, at-capacity from 6.4 to
\* 8.0, over-capacity above 8.0
StatusOf(c) ==
    IF LoadTenths(c) < 64 THEN "available"
    ELSE IF LoadTenths(c) <= 80 THEN "at-capacity"
    ELSE "over-capacity"

\* the day today + months: the same day of the month, that many months on
DayAfterMonths(today, months) ==
    LET ym == MonthAfter(today, months)
    IN  DayNumber(ym.y, ym.m, 1) + DateOfDay(today \div TicksPerDay).d - 1

\* the end date of a project is valid and on or before today + months
EndsWithin(p, today, months) ==
    /\ p.endDate.kind # "text"
    /\ NewDate(p.endDate) \div TicksPerDay <= DayAfterMonths(today, months)

Settled == ~effectDue /\ consultantData # <<>>

\* C6: with a capacity status selected, the filtered view holds exactly the
\* consultants of that class, in order, each with the assignment list the
\* other criteria leave it.
C6_CapacityStatusClasses ==
    (Settled /\ filters.capacityStatus # "all") =>
        LET others == applyFilters(consultantData,
                                   [filters EXCEPT !.capacityStatus = "all"], now)
        IN  filteredData =
                SelectSeq(others, LAMBDA c : StatusOf(c) = filters.capacityStatus)

\* C6 witness: over-capacity is selected, a consultant of load 8.5 is shown
\* and one of a load up to 8.0 is not
C6_Witness ==
    /\ Settled
    /\ filters.capacityStatus = "over-capacity"
    /\ \E c \in Range(filteredData) : LoadTenths(c) = 85 /\ Len(c.projects) > 1
    /\ \E c \in Range(consultantData) : LoadTenths(c) <= 80

\* C7: with the other criteria disabled, business line 'all' leaves the view
\* equal to the base dataset, and a business line keeps every consultant, in
\* order, with name, timeline and currentLoad as they are and the assignment
\* list narrowed to the assignments of that business line.
C7_BusinessLineNarrows ==
    (Settled /\ filters.timeframe = "all" /\ filters.capacityStatus = "all"
             /\ filters.consultantSearch = <<>>) =>
        IF filters.businessLine = "all" THEN filteredData = consultantData
        ELSE /\ Len(filteredData) = Len(consultantData)
             /\ \A i \in DOMAIN consultantData :
                  /\ filteredData[i].name = consultantData[i].name
                  /\ filteredData[i].timeline = consultantData[i].timeline
                  /\ filteredData[i].currentLoad = consultantData[i].currentLoad
                  /\ filteredData[i].projects =
                        SelectSeq(consultantData[i].projects,
                                  LAMBDA p : p.businessLine = filters.businessLine)

\* C7 witness: a business line is selected, one consultant keeps a shorter,
\* non-empty list and another is kept with an empty list
C7_Witness ==
    /\ Settled
    /\ filters.businessLine # "all"
    /\ filters.timeframe = "all" /\ filters.capacityStatus = "all"
    /\ \E i \in DOMAIN filteredData :
          /\ filteredData[i].projects # <<>>
          /\ Len(filteredData[i].projects) < Len(consultantData[i].projects)
    /\ \E i \in DOMAIN filteredData :
          filteredData[i].projects = <<>> /\ consultantData[i].projects # <<>>

\* C8: with the other criteria disabled, timeframe N keeps every consultant
\* and exactly the assignments whose end date is valid and on or before
\* today + N months, and 'all' leaves the assignment lists as they are.
C8_TimeframeNarrows ==
    (Settled /\ filters.businessLine = "all" /\ filters.capacityStatus = "all"
             /\ filters.consultantSearch = <<>>) =>
        /\ Len(filteredData) = Len(consultantData)
        /\ \A i \in DOMAIN consultantData :
              /\ filteredData[i].name = consultantData[i].name
              /\ filteredData[i].projects =
                    IF filters.timeframe = "all" THEN consultantData[i].projects
                    ELSE SelectSeq(consultantData[i].projects,
                            LAMBDA p : EndsWithin(p, now,
                                CASE filters.timeframe = "3months" -> 3
                                  [] filters.timeframe = "6months" -> 6
                                  [] OTHER -> 12))

\* C8 witness: with three months selected, an assignment ending on the day
\* three months from today is kept, and one ending a day later and one with an
\* unparseable end date are not
C8_Witness ==
    /\ Settled
    /\ filters.timeframe = "3months"
    /\ filters.businessLine = "all" /\ filters.capacityStatus = "all"
    /\ \E c \in Range(filteredData) : \E p \in Range(c.projects) :
          NewDate(p.endDate) \div TicksPerDay = DayAfterMonths(now, 3)
    /\ \E c \in Range(consultantData) : \E p \in Range(c.projects) :
          NewDate(p.endDate) \div TicksPerDay = DayAfterMonths(now, 3) + 1
    /\ \E i \in DOMAIN filteredData :
          /\ filteredData[i].projects = <<>>
          /\ \E p \in Range(consultantData[i].projects) : p.endDate = BadDate

(***************************************************************************)
(* The session claims, checked under Spec.                                 *)
(***************************************************************************)
\* an assignment passes the business line and the timeframe
KeepsProject(p, f, today) ==
    /\ f.businessLine = "all" \/ p.businessLine = f.businessLine
    /\ f.timeframe = "all"
          \/ EndsWithin(p, today, CASE f.timeframe = "3months" -> 3
                                    [] f.timeframe = "6months" -> 6
                                    [] OTHER -> 12)

\* a consultant passes the capacity status and the name search
ShowsConsultant(c, f) ==
    /\ f.capacityStatus = "all" \/ StatusOf(c) = f.capacityStatus
    /\ \E i \in 0..(Len(c.name) - Len(f.consultantSearch)) :
          \A h \in 1..Len(f.consultantSearch) :
              LowerChar(c.name[i + h]) = LowerChar(f.consultantSearch[h])

\* the view all the criteria together ask for
ExpectedView(data, f, today) ==
    LET shown == SelectSeq(data, LAMBDA c : ShowsConsultant(c, f))
    IN  [i \in DOMAIN shown |->
            [shown[i] EXCEPT !.projects =
                SelectSeq(@, LAMBDA p : KeepsProject(p, f, today))]]

\* a parse callback has run: one pending parse fewer
CallbackStep == BagCardinality(pending') < BagCardinality(pending)

\* the file whose parse called back
CalledBack ==
    CHOOSE f \in BagToSet(pending) : CopiesIn(f, pending') < CopiesIn(f, pending)

\* a parse has been started
UploadStep == BagCardinality(pending') > BagCardinality(pending)

\* the file cannot be processed: no row list, or a name field that is a number
Unprocessable(file) ==
    \/ file.kind = "malformed"
    \/ /\ file.kind = "csv"
       /\ \E i \in DOMAIN file.rows :
            \E text \in {file.rows[i].ProjectLead, file.rows[i].ProjectCoLead,
                         file.rows[i].ProjectStrategicAdvisors,
                         file.rows[i].ProjectSupportingConsultants} :
                IsNumeric(text) /\ NumVal(trim(text)) # 0

\* C9: once the effect has run, filteredData is the view all the criteria
\* together ask for of the current consultantData; consultantData changes
\* only in the callback of a parse that is processed, never with the filters.
C9_ViewFollowsCriteria ==
    [][/\ ~effectDue' => filteredData' = ExpectedView(consultantData', filters', now')
       /\ consultantData' # consultantData =>
             CallbackStep /\ ~Unprocessable(CalledBack) /\ CalledBack.kind = "csv"
       /\ filters' # filters => consultantData' = consultantData]_vars

\* C9 witness: after uploads and filter changes the effect has run, with a
\* business line and a search text selected that narrow the view
C9_Witness ==
    /\ ~effectDue
    /\ filters.businessLine # "all"
    /\ filters.consultantSearch # <<>>
    /\ filters.capacityStatus # "all"
    /\ filters.timeframe # "all"
    /\ filteredData # <<>>
    /\ Len(filteredData) < Len(consultantData)
    /\ \E i \in DOMAIN filteredData :
          \E n \in DOMAIN consultantData :
              /\ consultantData[n].name = filteredData[i].name
              /\ Len(filteredData[i].projects) < Len(consultantData[n].projects)

\* C10: a parse callback leaves isLoading false; a parse failure sets the
\* error to 'Error parsing CSV: ' + reason, a processing failure sets it to
\* 'Error processing data: ' + reason, and both leave the dataset, the view
\* and the criteria as they are; starting an upload clears the error.
C10_UploadOutcome ==
    [][/\ CallbackStep =>
             /\ isLoading' = FALSE
             /\ CalledBack.kind = "unreadable" =>
                   /\ Len(error') = 2 /\ error'[1] = "Error parsing CSV: "
                   /\ error'[2] # ""
                   /\ UNCHANGED <<consultantData, filteredData, filters>>
             /\ Unprocessable(CalledBack) =>
                   /\ Len(error') = 2 /\ error'[1] = "Error processing data: "
                   /\ error'[2] # ""
                   /\ UNCHANGED <<consultantData, filteredData, filters>>
       /\ UploadStep => error' = <<>> /\ isLoading' = TRUE]_vars

\* C10 witness: a processing failure is reported, nothing is loading, and the
\* dataset loaded before and the filtered view of it are still there
C10_Witness ==
    /\ error # <<>>
    /\ error[1] = "Error processing data: "
    /\ ~isLoading
    /\ consultantData # <<>>
    /\ filteredData # <<>>
    /\ filters.businessLine # "all"

(***************************************************************************)
(* The export claim, checked under SpecExport.                             *)
(***************************************************************************)
\* the (consultant, assignment) pairs of a view
RECURSIVE AssignmentCount(_)
AssignmentCount(view) ==
    IF view = <<>> THEN 0
    ELSE Len(Head(view).projects) + AssignmentCount(Tail(view))

\* the position, in the exported lines, of assignment k of consultant i
LineOf(view, i, k) == AssignmentCount(SubSeq(view, 1, i - 1)) + k

\* 8 minus a load, as a sign and a magnitude
EightMinus(load) ==
    IF FLt(ParseTenths(10 * MAX_RECOMMENDED_LOAD), load)
    THEN [neg |-> TRUE, mag |-> FSub(load, ParseTenths(10 * MAX_RECOMMENDED_LOAD))]
    ELSE [neg |-> FALSE, mag |-> FSub(ParseTenths(10 * MAX_RECOMMENDED_LOAD), load)]

\* a step of exportData that is not a stuttering step
ExportStep == exportFormat' # exportFormat \/ download' # download

CsvExported(view, file) ==
    /\ file.type = "text/csv"
    /\ Len(file.lines) = AssignmentCount(view)
    /\ \A i \in DOMAIN view : \A k \in DOMAIN view[i].projects :
          LET line == file.lines[LineOf(view, i, k)]
              project == view[i].projects[k]
          IN  /\ line[1] = view[i].name
              /\ line[2] = project.projectName
              /\ line[3] = project.role
              /\ line[4] = project.businessLine
              /\ line[5] = project.startDate
              /\ line[6] = project.endDate
              /\ line[7] = view[i].timeline[1].weightedLoad
              /\ line[8] = EightMinus(view[i].timeline[1].weightedLoad)
    /\ \A n \in DOMAIN file.lines :
          \E i \in DOMAIN view : view[i].projects # <<>> /\ file.lines[n][1] = view[i].name

\* C11: an export of the filtered view as CSV downloads one line per
\* (consultant, assignment) pair of that view, in order, so as many lines as
\* the assignment lists are long together and none for a consultant without
\* assignments; each line of a consultant carries the weighted load of their
\* first timeline entry and 8 minus that load, negative when the load is over
\* 8; an export in a format other than csv, excel and json downloads nothing.
C11_CsvExportRows ==
    [][ExportStep =>
        /\ exportFormat' = "csv" =>
              /\ Len(download') = 1
              /\ CsvExported(filteredData, download'[1])
        /\ exportFormat' \notin {"csv", "excel", "json"} => download' = download]_vars

\* an unsupported export has left the CSV download before it in place, which
\* was taken of the current view, has a line with a negative capacity, and
\* has no line for a consultant of the view who has no assignments
C11_Witness ==
    /\ ~effectDue
    /\ exportFormat = "pdf"
    /\ Len(download) = 1
    /\ CsvExported(filteredData, download[1])
    /\ \E n \in DOMAIN download[1].lines : download[1].lines[n][8].neg
    /\ \E i \in DOMAIN filteredData : filteredData[i].projects = <<>>

(***************************************************************************)
(* The overlapping-uploads claim, checked under SpecRace, whose files all  *)
(* parse and process.                                                      *)
(***************************************************************************)
LastSelected == selected[Len(selected)]

\* every started parse has called back, and the last file was selected while
\* a parse was pending
OverlapSettled ==
    /\ selected # <<>>
    /\ LastSelected.during > 0
    /\ pending = EmptyBag

\* the dataset and the business-line options are those of the last selection
LatestSelectionWins ==
    OverlapSettled =>
        /\ consultantData =
              consultantsWithTimeline(ParseResults(LastSelected.file).data, now)
        /\ businessLines = businessLinesOf(ParseResults(LastSelected.file).data)

\* the loading flag is up while a started parse has not called back
LoadingWhilePending == pending # EmptyBag => isLoading

\* C12: when a file was selected while the parse of an earlier one was
\* pending and every started parse has called back, the base dataset and the
\* business-line options are those derived from the file selected last; and
\* the loading flag is true whenever a started parse has not called back.
C12_LatestSelectionWins == LatestSelectionWins /\ LoadingWhilePending
====
